---- MODULE Spec2Model ----
(***************************************************************************)
(* Model of journey2dayone.py: the Journey HTML -> Day One converter.      *)
(*                                                                         *)
(* Text is a sequence of tokens.  A token is a one-character string, or    *)
(* one of the multi-character pieces "&#32;", "&amp;#32;" (character       *)
(* references), "<br>", "<span>" (tags), which stand for the characters    *)
(* they are written with.                                                  *)
(***************************************************************************)
EXTENDS Integers, Sequences, FiniteSets, TLC

VARIABLES
    pc,        \* position in the program
    j,         \* the Journey record: [hasText, text]
    photos,    \* photo identifiers returned by convert_media
    audios,    \* audio identifiers returned by convert_media
    md,        \* plain_text = strip_html(html.unescape(j.get("text", "")))
    md2,       \* strip_html applied to md once more
    lines,     \* lines of markdown.splitlines(keepends=True) not yet classified
    contents,  \* the contents list of build_rich_and_plain
    nuuid,     \* number of uuid4 identifiers drawn so far
    blocks,    \* the blocks list of build_rich_and_plain
    plain,     \* "\n".join(blocks)
    files,     \* main: the directory listing, file -> what converting it does
    todo,      \* main: files of os.listdir not yet visited
    cur,       \* main: file being converted (0: none)
    item,      \* main: index of the media item being converted
    entries,   \* main: the entries list
    logged,    \* main: files whose exception was printed
    copied,    \* main: media copied into the output tree, as <<file, index>>
    jsonOut,   \* main: entries written to Journey.json (<<"none">>: not written)
    zipOut     \* main: TRUE once Journey.dayone.zip is written

vars == <<pc, j, photos, audios, md, md2, lines, contents, nuuid, blocks,
          plain, files, todo, cur, item, entries, logged, copied, jsonOut,
          zipOut>>

docVars == <<j, photos, audios, md, md2, lines, contents, nuuid, blocks, plain>>
mainVars == <<files, todo, cur, item, entries, logged, copied, jsonOut, zipOut>>

\* ---- bounds ------------------------------------------------------------
MaxLen == 4
MaxTidyLen == 4
MaxHashes == 8
MaxIndent == 4
MaxMedia == 2
NumFiles == 2
MaxItems == 2

\* ---- sequences ---------------------------------------------------------
Take(s, n) == SubSeq(s, 1, n)
Drop(s, n) == SubSeq(s, n + 1, Len(s))
MinOf(S) == CHOOSE x \in S : \A y \in S : x <= y

\* length of the longest prefix of s made of elements of S
SpanLen(s, S) ==
    LET bad == {i \in 1..Len(s) : s[i] \notin S}
    IN IF bad = {} THEN Len(s) ELSE MinOf(bad) - 1

\* the subsequence of s at the indices in K
RECURSIVE Pick(_, _)
Pick(s, K) ==
    IF s = <<>> THEN <<>>
    ELSE Pick(Take(s, Len(s) - 1), K)
         \o (IF Len(s) \in K THEN <<s[Len(s)]>> ELSE <<>>)

StringsUpTo(A, n) == UNION {[1..k -> A] : k \in 0..n}

\* ---- character classes -------------------------------------------------
Space == {" ", "\t", "\n", "\r"}          \* \s and str.strip() whitespace
Terminators == {"\n", "\r"}               \* str.splitlines() boundaries
Digits == {"0", "1", "5"}                 \* \d
BulletMarks == {"*", "-", "+"}            \* [*\-+]
\* the backquote is written "backquote": the string syntax has no backquote
BolEscaped == {"#", "*", "-", "+", ">", "backquote"}
InlineEscaped == {".", "-", "*", "_"}

\* ---- html.unescape -----------------------------------------------------
UnescapeTok(t) ==
    IF t = "&#32;" THEN " "
    ELSE IF t = "&amp;#32;" THEN "&#32;"
    ELSE t

unescape(s) == [i \in 1..Len(s) |-> UnescapeTok(s[i])]

\* ---- str.strip ---------------------------------------------------------
Strip(s) ==
    LET keep == {i \in 1..Len(s) : s[i] \notin Space}
    IN IF keep = {} THEN <<>>
       ELSE SubSeq(s, MinOf(keep), CHOOSE x \in keep : \A y \in keep : y <= x)

\* ---- html_to_markdown.convert_to_markdown ------------------------------
\* block tags become line breaks, other tags are removed, text passes through
RECURSIVE convert_to_markdown(_)
convert_to_markdown(raw) ==
    IF raw = <<>> THEN <<>>
    ELSE (IF Head(raw) = "<br>" THEN <<"\n">>
          ELSE IF Head(raw) = "<span>" THEN <<>>
          ELSE <<Head(raw)>>) \o convert_to_markdown(Tail(raw))

\* ---- strip_html, the five re.sub steps ---------------------------------
AtBOL(s, i) == i = 1 \/ s[i - 1] = "\n"          \* ^ under re.MULTILINE

\* re.sub(r"\n{2,}", "\n", md)
\* variant: re.sub(r"\n\n", "\n", md), which halves a run instead of collapsing it
CollapseBlankPairs(s) ==
    Pick(s, {i \in 1..Len(s) :
               ~(s[i] = "\n" /\ i > 1 /\ s[i - 1] = "\n"
                 /\ Cardinality({k \in 1..i : \A m \in k..i : s[m] = "\n"}) % 2 = 0)})

CollapseBlank(s) ==
    Pick(s, {i \in 1..Len(s) : ~(s[i] = "\n" /\ i > 1 /\ s[i - 1] = "\n")})

\* re.sub(r"^\* ", r"- ", md, flags=re.MULTILINE)
DashBullets(s) ==
    [i \in 1..Len(s) |->
        IF AtBOL(s, i) /\ s[i] = "*" /\ i < Len(s) /\ s[i + 1] = " "
        THEN "-" ELSE s[i]]

\* re.sub(r"(?m)^\\([#*\-+>`])", r"\1", md)
UnescapeBOL(s) ==
    Pick(s, {i \in 1..Len(s) :
               ~(AtBOL(s, i) /\ s[i] = "\\" /\ i < Len(s)
                 /\ s[i + 1] \in BolEscaped)})

\* re.sub(r"\\([.\-*_])", r"\1", md)
UnescapeInline(s) ==
    Pick(s, {i \in 1..Len(s) :
               ~(s[i] = "\\" /\ i < Len(s) /\ s[i + 1] \in InlineEscaped)})

\* re.sub(r"\*\\\*(.*?)\\\*\*", r"**\1**", md)
RECURSIVE FixBold(_)
FixBold(s) ==
    IF Len(s) < 6 THEN s
    ELSE LET closes == {k \in 4..(Len(s) - 2) :
                          /\ s[k] = "\\" /\ s[k + 1] = "*" /\ s[k + 2] = "*"
                          /\ \A m \in 4..(k - 1) : s[m] # "\n"}
         IN IF s[1] = "*" /\ s[2] = "\\" /\ s[3] = "*" /\ closes # {}
            THEN <<"*", "*">> \o SubSeq(s, 4, MinOf(closes) - 1) \o <<"*", "*">>
                 \o FixBold(Drop(s, MinOf(closes) + 2))
            ELSE <<s[1]>> \o FixBold(Tail(s))

\* variant: no early return on blank input and no .strip()
strip_html_nostrip(src) ==
    FixBold(UnescapeInline(UnescapeBOL(DashBullets(CollapseBlank(
        convert_to_markdown(unescape(src)))))))

strip_html(src) ==
    LET raw == unescape(src)
    IN IF Strip(raw) = <<>> THEN <<>>
       ELSE FixBold(UnescapeInline(UnescapeBOL(DashBullets(CollapseBlank(
                Strip(convert_to_markdown(raw)))))))

\* ---- str.splitlines(keepends=True) -------------------------------------
RECURSIVE SplitLines(_)
SplitLines(s) ==
    IF s = <<>> THEN <<>>
    ELSE LET ts == {i \in 1..Len(s) : s[i] \in Terminators}
         IN IF ts = {} THEN <<s>>
            ELSE LET i == MinOf(ts)
                     e == IF s[i] = "\r" /\ i < Len(s) /\ s[i + 1] = "\n"
                          THEN i + 1 ELSE i
                 IN <<Take(s, e)>> \o SplitLines(Drop(s, e))

\* ---- _markdown_to_dayone_contents, one line ----------------------------
\* length of the longest prefix . can match: up to the first "\n"
DotLen(s) ==
    LET nl == {i \in 1..Len(s) : s[i] = "\n"}
    IN IF nl = {} THEN Len(s) ELSE MinOf(nl) - 1

EndsNL(raw) == raw # <<>> /\ raw[Len(raw)] = "\n"      \* raw.endswith("\n")
NLIf(raw) == IF EndsNL(raw) THEN <<"\n">> ELSE <<>>

RECURSIVE IntOf(_)
IntOf(ds) ==                                              \* int(m.group(2))
    IF ds = <<>> THEN 0
    ELSE 10 * IntOf(Take(ds, Len(ds) - 1))
         + (CASE ds[Len(ds)] = "0" -> 0 [] ds[Len(ds)] = "1" -> 1
              [] ds[Len(ds)] = "5" -> 5)

\* variant: an odd number of spaces rounds up
IndentLevelRoundUp(indent_spaces) == (indent_spaces + 1) \div 2 + 1

IndentLevel(indent_spaces) == indent_spaces \div 2 + 1    \* every 2 spaces = +1

\* _hdr_re = ^(#{1,6})\s*(.*)$ : the greedy attempt, which on one line of
\* splitlines is the attempt that decides
HdrG1(raw) == IF SpanLen(raw, {"#"}) < 6 THEN SpanLen(raw, {"#"}) ELSE 6
HdrAfterWs(raw) ==
    Drop(Drop(raw, HdrG1(raw)), SpanLen(Drop(raw, HdrG1(raw)), Space))
HdrG2(raw) == Take(HdrAfterWs(raw), DotLen(HdrAfterWs(raw)))
hdr_re(raw) ==
    /\ HdrG1(raw) >= 1
    /\ Drop(HdrAfterWs(raw), DotLen(HdrAfterWs(raw))) \in {<<>>, <<"\n">>}

\* ^(\s*)[*\-+]\s+(.*)
BulG1(raw) == SpanLen(raw, Space)
BulAfterMark(raw) == Drop(raw, BulG1(raw) + 1)
BulAfterWs(raw) == Drop(BulAfterMark(raw), SpanLen(BulAfterMark(raw), Space))
BulG2(raw) == Take(BulAfterWs(raw), DotLen(BulAfterWs(raw)))
bullet_re(raw) ==
    /\ Len(raw) > BulG1(raw)
    /\ raw[BulG1(raw) + 1] \in BulletMarks
    /\ SpanLen(BulAfterMark(raw), Space) >= 1

\* ^(\s*)(\d+)[\.\)]\s+(.*)
NumG1(raw) == SpanLen(raw, Space)
NumG2(raw) == Take(Drop(raw, NumG1(raw)), SpanLen(Drop(raw, NumG1(raw)), Digits))
NumAfterMark(raw) == Drop(raw, NumG1(raw) + Len(NumG2(raw)) + 1)
NumAfterWs(raw) == Drop(NumAfterMark(raw), SpanLen(NumAfterMark(raw), Space))
NumG3(raw) == Take(NumAfterWs(raw), DotLen(NumAfterWs(raw)))
numbered_re(raw) ==
    /\ Len(NumG2(raw)) >= 1
    /\ Len(raw) > NumG1(raw) + Len(NumG2(raw))
    /\ raw[NumG1(raw) + Len(NumG2(raw)) + 1] \in {".", ")"}
    /\ SpanLen(NumAfterMark(raw), Space) >= 1

\* variant: numbered items renumbered 1, 2, ... in order of appearance
ListIndexByPosition(raw, done) ==
    Cardinality({i \in 1..Len(done) : done[i].kind = "numbered"}) + 1

ListIndex(raw, done) == IntOf(NumG2(raw))

\* the segment appended for the line raw; id is the uuid4 drawn for it and
\* done the segments appended so far
Classify(raw, id, done) ==
    IF hdr_re(raw)
    THEN [kind |-> "header", header |-> HdrG1(raw), identifier |-> id,
          text |-> HdrG2(raw) \o NLIf(raw)]
    ELSE IF bullet_re(raw)
    THEN [kind |-> "bulleted", indentLevel |-> IndentLevel(BulG1(raw)),
          identifier |-> id, text |-> BulG2(raw) \o NLIf(raw)]
    ELSE IF numbered_re(raw)
    THEN [kind |-> "numbered", indentLevel |-> IndentLevel(NumG1(raw)),
          listIndex |-> ListIndex(raw, done), identifier |-> id,
          text |-> NumG3(raw) \o NLIf(raw)]
    ELSE [kind |-> "text", text |-> raw]

Embed(type, id) == [kind |-> "embed", type |-> type, identifier |-> id]

\* ---- build_rich_and_plain, the plain projection ------------------------
PhotoRef(id) == <<"![](dayone-moment://", id, ")">>
AudioRef(id) == <<"![](dayone-moment:/audio/", id, ")">>

RECURSIVE JoinNL(_)
JoinNL(bs) ==                                             \* "\n".join(blocks)
    IF bs = <<>> THEN <<>>
    ELSE IF Len(bs) = 1 THEN bs[1]
    ELSE bs[1] \o <<"\n">> \o JoinNL(Tail(bs))

\* variant: blocks = [markdown], also for an empty text
TextBlockAlways(markdown) == <<markdown>>

TextBlock(markdown) == IF markdown # <<>> THEN <<markdown>> ELSE <<>>

Blocks(markdown, ps, as) ==
    TextBlock(markdown)
    \o [i \in 1..Len(ps) |-> PhotoRef(ps[i])]
    \o [i \in 1..Len(as) |-> AudioRef(as[i])]

\* ---- inputs ------------------------------------------------------------
MaxNewlines == 5
MaxBlankLen == 3

Alphabet == {"\n", "\r", " ", "\t", "#", "-", "1", ".", "a"}
TidyAlphabet == {"\n", "\\", "*", " ", ".", "a"}
BlankAlphabet == {" ", "\n", "&#32;", "&amp;#32;", "<span>", "<br>"}
Markup == {"&#32;", "&amp;#32;", "<span>", "<br>"}

Rep(c, n) == [i \in 1..n |-> c]

GeneralTexts == StringsUpTo(Alphabet, MaxLen)

BoldTexts ==
    {<<"*", "\\", "\\", "*">> \o b \o <<"\\", "\\", "*", "*">> :
        b \in {<<>>, <<"a">>, <<"a", "\n", "a">>}}

NewlineRuns == {<<"a">> \o Rep("\n", k) \o <<"b">> : k \in 0..MaxNewlines}

TidyTexts == StringsUpTo(TidyAlphabet, MaxTidyLen) \cup BoldTexts \cup NewlineRuns

Endings == {<<>>, <<"\n", "a">>, <<"\r", "a">>, <<"\r", "\n", "a">>}

HashTexts ==
    {Rep("#", h) \o t \o e :
        h \in 1..MaxHashes, t \in {<<>>, <<" ">>, <<" ", "a">>, <<"a">>},
        e \in Endings}

Indents ==
    {Rep(" ", k) : k \in 0..MaxIndent} \cup {Rep("\t", k) : k \in 1..2}
    \cup {<<" ", "\t">>}

Markers ==
    {<<"-">>, <<"*">>, <<"1", ".">>, <<"5", ")">>, <<"1", "5", ".">>,
     <<"0", "5", ".">>}

ListTexts ==
    {f \o i \o m \o sp \o b \o e :
        f \in {<<>>, <<"a", "\n">>, <<"5", ".", " ", "a", "\n">>,
               <<"-", " ", "a", "\n">>},
        i \in Indents, m \in Markers, sp \in {<<>>, <<" ">>},
        b \in {<<>>, <<"a">>}, e \in Endings}

BlankTexts == StringsUpTo(BlankAlphabet, MaxBlankLen)

MediaTexts == BlankTexts \cup {<<"a">>, <<"#", " ", "a", "\n", "-", " ", "a">>}

Texts == GeneralTexts \cup TidyTexts \cup HashTexts \cup ListTexts \cup BlankTexts

PhotoIds == {"P1", "P2"}
AudioIds == {"A1", "A2"}

NoMain ==
    /\ files = <<>> /\ todo = {} /\ cur = 0 /\ item = 0 /\ entries = <<>>
    /\ logged = {} /\ copied = {} /\ jsonOut = <<"none">> /\ zipOut = FALSE

\* ---- journey_to_dayone_entry: text -> rich text and plain text ---------
GetText(rec) == IF rec.hasText THEN rec.text ELSE <<>>   \* j.get("text", "")

NumPhotoEmbeds ==
    Cardinality({i \in 1..Len(contents) :
                    contents[i].kind = "embed" /\ contents[i].type = "photo"})
NumAudioEmbeds ==
    Cardinality({i \in 1..Len(contents) :
                    contents[i].kind = "embed" /\ contents[i].type = "audio"})

DocInit ==
    /\ pc = "start"
    /\ \/ /\ j \in [hasText : {TRUE}, text : Texts]
          /\ photos = <<>> /\ audios = <<>>
       \/ /\ j \in [hasText : {TRUE}, text : MediaTexts]
                  \cup [hasText : {FALSE}, text : {<<>>}]
          /\ photos \in StringsUpTo(PhotoIds, MaxMedia)
          /\ audios \in StringsUpTo(AudioIds, MaxMedia)
    /\ md = <<>> /\ md2 = <<>> /\ lines = <<>> /\ contents = <<>>
    /\ nuuid = 0 /\ blocks = <<>> /\ plain = <<>>
    /\ NoMain

\* plain_text = strip_html(html.unescape(j.get("text", ""))), and the call of
\* build_rich_and_plain up to markdown.splitlines(keepends=True)
Normalize ==
    /\ pc = "start"
    /\ md' = strip_html(unescape(GetText(j)))
    /\ lines' = SplitLines(md')
    /\ pc' = "build"
    /\ UNCHANGED <<j, photos, audios, md2, contents, nuuid, blocks, plain>>
    /\ UNCHANGED mainVars

\* variant: a loop that skips whitespace-only lines
ClassifyLineSkipBlank ==
    /\ pc = "build"
    /\ lines # <<>>
    /\ IF Strip(Head(lines)) = <<>>
       THEN UNCHANGED <<contents, nuuid>>
       ELSE /\ contents' = Append(contents, Classify(Head(lines), nuuid + 1, contents))
            /\ nuuid' = nuuid + 1
    /\ lines' = Tail(lines)
    /\ UNCHANGED <<pc, j, photos, audios, md, md2, blocks, plain>>
    /\ UNCHANGED mainVars

\* one iteration of the loop of _markdown_to_dayone_contents
ClassifyLine ==
    /\ pc = "build"
    /\ lines # <<>>
    /\ LET seg == Classify(Head(lines), nuuid + 1, contents)
       IN /\ contents' = Append(contents, seg)
          /\ nuuid' = IF seg.kind = "text" THEN nuuid ELSE nuuid + 1
    /\ lines' = Tail(lines)
    /\ UNCHANGED <<pc, j, photos, audios, md, md2, blocks, plain>>
    /\ UNCHANGED mainVars

\* one iteration of "for p in photos"
AppendPhoto ==
    /\ pc = "build"
    /\ lines = <<>>
    /\ NumPhotoEmbeds < Len(photos)
    /\ contents' = Append(contents, Embed("photo", photos[NumPhotoEmbeds + 1]))
    /\ UNCHANGED <<pc, j, photos, audios, md, md2, lines, nuuid, blocks, plain>>
    /\ UNCHANGED mainVars

\* one iteration of "for a in audios"
AppendAudio ==
    /\ pc = "build"
    /\ lines = <<>>
    /\ NumPhotoEmbeds = Len(photos)
    /\ NumAudioEmbeds < Len(audios)
    /\ contents' = Append(contents, Embed("audio", audios[NumAudioEmbeds + 1]))
    /\ UNCHANGED <<pc, j, photos, audios, md, md2, lines, nuuid, blocks, plain>>
    /\ UNCHANGED mainVars

\* blocks and "\n".join(blocks)
BuildPlain ==
    /\ pc = "build"
    /\ lines = <<>>
    /\ NumPhotoEmbeds = Len(photos)
    /\ NumAudioEmbeds = Len(audios)
    /\ blocks' = Blocks(md, photos, audios)
    /\ plain' = JoinNL(blocks')
    /\ pc' = "done"
    /\ UNCHANGED <<j, photos, audios, md, md2, lines, contents, nuuid>>
    /\ UNCHANGED mainVars

DocNext == Normalize \/ ClassifyLine \/ AppendPhoto \/ AppendAudio \/ BuildPlain

Spec == DocInit /\ [][DocNext]_vars

\* ---- strip_html applied to its own output ------------------------------
NormInit ==
    /\ pc = "start"
    /\ j \in [hasText : {TRUE}, text : Texts]
    /\ photos = <<>> /\ audios = <<>>
    /\ md = <<>> /\ md2 = <<>> /\ lines = <<>> /\ contents = <<>>
    /\ nuuid = 0 /\ blocks = <<>> /\ plain = <<>>
    /\ NoMain

StripHtml ==
    /\ pc = "start"
    /\ md' = strip_html(GetText(j))
    /\ pc' = "normalized"
    /\ UNCHANGED <<j, photos, audios, md2, lines, contents, nuuid, blocks, plain>>
    /\ UNCHANGED mainVars

StripHtmlAgain ==
    /\ pc = "normalized"
    /\ md2' = strip_html(md)
    /\ pc' = "renormalized"
    /\ UNCHANGED <<j, photos, audios, md, lines, contents, nuuid, blocks, plain>>
    /\ UNCHANGED mainVars

NormNext == StripHtml \/ StripHtmlAgain

SpecNorm == NormInit /\ [][NormNext]_vars

\* ---- main --------------------------------------------------------------
\* files[k] is the k-th name os.listdir returns, whatever the order is.
\* a directory entry: json is fn.endswith(".json"), valid is whether json.load
\* succeeds, hasDate whether the record has "date_journal"; media lists what
\* convert_media meets in j["photos"]: "jpg" a file copied as it is, "mp3" a
\* file given to ffmpeg, "other" a file that is skipped
MediaKinds == {"jpg", "mp3", "other"}

FileKinds ==
    [json : {FALSE}, valid : {TRUE}, hasDate : {TRUE}, media : {<<>>}]
    \cup [json : {TRUE}, valid : {FALSE}, hasDate : {FALSE}, media : {<<>>}]
    \cup [json : {TRUE}, valid : {TRUE}, hasDate : {FALSE}, media : {<<>>}]
    \cup [json : {TRUE}, valid : {TRUE}, hasDate : {TRUE},
          media : StringsUpTo(MediaKinds, MaxItems)]

NoDoc ==
    /\ j = [hasText |-> FALSE, text |-> <<>>]
    /\ photos = <<>> /\ audios = <<>> /\ md = <<>> /\ md2 = <<>>
    /\ lines = <<>> /\ contents = <<>> /\ nuuid = 0 /\ blocks = <<>>
    /\ plain = <<>>

MainInit ==
    /\ pc = "main"
    /\ files \in [1..NumFiles -> FileKinds]
    /\ todo = {} /\ cur = 0 /\ item = 0 /\ entries = <<>> /\ logged = {}
    /\ copied = {} /\ jsonOut = <<"none">> /\ zipOut = FALSE
    /\ NoDoc

\* ensure_dirs(); entries = []; os.listdir(JOURNEY_INPUT_DIR)
EnsureDirs ==
    /\ pc = "main"
    /\ todo' = 1..NumFiles
    /\ pc' = "loop"
    /\ UNCHANGED <<files, cur, item, entries, logged, copied, jsonOut, zipOut>>
    /\ UNCHANGED docVars

\* if not fn.endswith(".json"): continue
SkipFile ==
    /\ pc = "loop"
    /\ todo # {}
    /\ ~files[MinOf(todo)].json
    /\ todo' = todo \ {MinOf(todo)}
    /\ UNCHANGED <<pc, files, cur, item, entries, logged, copied, jsonOut, zipOut>>
    /\ UNCHANGED docVars

\* with open(...) as fh:
OpenFile ==
    /\ pc = "loop"
    /\ todo # {}
    /\ files[MinOf(todo)].json
    /\ todo' = todo \ {MinOf(todo)}
    /\ cur' = MinOf(todo)
    /\ pc' = "load"
    /\ UNCHANGED <<files, item, entries, logged, copied, jsonOut, zipOut>>
    /\ UNCHANGED docVars

\* variant: the handler leaves the loop instead of going on
CatchBreak ==
    /\ logged' = logged \cup {cur}
    /\ cur' = 0
    /\ item' = 0
    /\ todo' = {}
    /\ pc' = "loop"
    /\ UNCHANGED <<files, entries, copied, jsonOut, zipOut>>

\* except Exception as e: print(...)
Catch ==
    /\ logged' = logged \cup {cur}
    /\ cur' = 0
    /\ item' = 0
    /\ pc' = "loop"
    /\ UNCHANGED <<files, todo, entries, copied, jsonOut, zipOut>>

\* journey = json.load(fh)
LoadJson ==
    /\ pc = "load"
    /\ IF files[cur].valid
       THEN /\ pc' = "entry"
            /\ UNCHANGED <<files, todo, cur, item, entries, logged, copied,
                           jsonOut, zipOut>>
       ELSE Catch
    /\ UNCHANGED docVars

\* journey_to_dayone_entry: created = rfc3339(j["date_journal"])
StartEntry ==
    /\ pc = "entry"
    /\ IF files[cur].hasDate
       THEN /\ pc' = "media"
            /\ item' = 1
            /\ UNCHANGED <<files, todo, cur, entries, logged, copied, jsonOut,
                           zipOut>>
       ELSE Catch
    /\ UNCHANGED docVars

\* one iteration of the loop of convert_media: save_media, and for an mp3
\* transcode_to_m4a, which raises when ffmpeg returns a non-zero code
ConvertItem ==
    /\ pc = "media"
    /\ item <= Len(files[cur].media)
    /\ \E returncode \in {0, 1} :
          IF files[cur].media[item] = "mp3" /\ returncode # 0
          THEN Catch
          ELSE /\ item' = item + 1
               /\ copied' = IF files[cur].media[item] = "other" THEN copied
                            ELSE copied \cup {<<cur, item>>}
               /\ UNCHANGED <<pc, files, todo, cur, entries, logged, jsonOut,
                              zipOut>>
    /\ UNCHANGED docVars

\* the rest of journey_to_dayone_entry, and entries.append(...)
FinishEntry ==
    /\ pc = "media"
    /\ item > Len(files[cur].media)
    /\ entries' = Append(entries, cur)
    /\ cur' = 0
    /\ item' = 0
    /\ pc' = "loop"
    /\ UNCHANGED <<files, todo, logged, copied, jsonOut, zipOut>>
    /\ UNCHANGED docVars

\* json.dump({"metadata": ..., "entries": entries}, fh, ...)
WriteJson ==
    /\ pc = "loop"
    /\ todo = {}
    /\ jsonOut' = entries
    /\ pc' = "zip"
    /\ UNCHANGED <<files, todo, cur, item, entries, logged, copied, zipOut>>
    /\ UNCHANGED docVars

\* build_import_zip(DAYONE_OUTPUT_DIR, zip_target)
BuildZip ==
    /\ pc = "zip"
    /\ zipOut' = TRUE
    /\ pc' = "done"
    /\ UNCHANGED <<files, todo, cur, item, entries, logged, copied, jsonOut>>
    /\ UNCHANGED docVars

MainNext ==
    \/ EnsureDirs \/ SkipFile \/ OpenFile \/ LoadJson \/ StartEntry
    \/ ConvertItem \/ FinishEntry \/ WriteJson \/ BuildZip

SpecMain == MainInit /\ [][MainNext]_vars

\* ---- properties ---------------------------------------------------------
Building == pc \in {"build", "done"}
SrcLines == SplitLines(md)
NumClassified == Len(SrcLines) - Len(lines)
IsList(seg) == seg.kind \in {"bulleted", "numbered"}
NoId(seg) == IF seg.kind = "text" THEN seg ELSE [seg EXCEPT !.identifier = 0]

\* number of lines of s, counted by their ends: "\r\n" ends one line
LineEnds(s) ==
    {i \in 1..Len(s) :
        s[i] \in Terminators /\ ~(s[i] = "\r" /\ i < Len(s) /\ s[i + 1] = "\n")}
NumLines(s) ==
    Cardinality(LineEnds(s))
    + (IF s # <<>> /\ Len(s) \notin LineEnds(s) THEN 1 ELSE 0)

\* C1: when build_rich_and_plain is done, contents holds exactly N+P+A
\* segments: the classified segments of the N lines of the normalized text in
\* line order, then the P photo embeds in the order of photos, then the A
\* audio embeds in the order of audios.
C1_SegmentOrder ==
    pc = "done" =>
        LET N == NumLines(md)
            P == Len(photos)
            A == Len(audios)
        IN /\ Len(SrcLines) = N
           /\ Len(contents) = N + P + A
           /\ \A i \in 1..N :
                 /\ contents[i].kind # "embed"
                 /\ NoId(contents[i])
                      = NoId(Classify(SrcLines[i], 0, Take(contents, i - 1)))
           /\ \A i \in 1..P : contents[N + i] = Embed("photo", photos[i])
           /\ \A i \in 1..A : contents[N + P + i] = Embed("audio", audios[i])

C1_Witness ==
    /\ pc = "done"
    /\ NumLines(md) >= 2
    /\ Len(photos) = 2
    /\ Len(audios) = 2
    /\ photos[1] # photos[2]

\* the references of the embeds, each preceded by the separator
RECURSIVE RefsAfter(_, _)
RefsAfter(ps, as) ==
    IF ps # <<>> THEN <<"\n">> \o PhotoRef(Head(ps)) \o RefsAfter(Tail(ps), as)
    ELSE IF as # <<>> THEN <<"\n">> \o AudioRef(Head(as)) \o RefsAfter(ps, Tail(as))
    ELSE <<>>

\* C2: the plain projection is the normalized text (only when non-empty),
\* then one reference per photo, then one per audio, joined by single
\* newlines: (1 if text non-empty else 0) + P + A blocks, no leading blank
\* line and no trailing blank block.
C2_PlainProjection ==
    pc = "done" =>
        /\ Len(blocks) = (IF md # <<>> THEN 1 ELSE 0) + Len(photos) + Len(audios)
        /\ \A i \in 1..Len(blocks) : blocks[i] # <<>>
        /\ plain = IF md # <<>> THEN md \o RefsAfter(photos, audios)
                   ELSE IF RefsAfter(photos, audios) = <<>> THEN <<>>
                   ELSE Tail(RefsAfter(photos, audios))
        /\ plain # <<>> => plain[1] # "\n" /\ plain[Len(plain)] # "\n"

C2_Witness ==
    /\ pc = "done"
    /\ md # <<>>
    /\ Len(photos) = 2
    /\ Len(audios) = 1
    /\ Len(blocks) = 4

\* C3: a header segment comes only from a line that starts with 1 to 6 "#",
\* its level is the number of leading "#", and a line that starts with 7 or
\* more "#" is emitted as plain text, verbatim.
C3_HeaderOnlyUpToSix ==
    Building =>
        \A i \in 1..NumClassified :
            LET h == SpanLen(SrcLines[i], {"#"})
            IN /\ contents[i].kind = "header" => h \in 1..6 /\ contents[i].header = h
               /\ h >= 7 => contents[i] = [kind |-> "text", text |-> SrcLines[i]]

\* the whitespace a list line starts with
LeadingWs(l) == Take(l, SpanLen(l, Space))
NumSpaces(l) == Cardinality({k \in 1..Len(LeadingWs(l)) : l[k] = " "})

RECURSIVE Pow10(_)
Pow10(n) == IF n = 0 THEN 1 ELSE 10 * Pow10(n - 1)
RECURSIVE SumTo(_, _)
SumTo(f, n) == IF n = 0 THEN 0 ELSE f[n] + SumTo(f, n - 1)
Literal(l) ==
    LET rest == Drop(l, SpanLen(l, Space))
        n == SpanLen(rest, Digits)
        d == [k \in 1..n |->
                (IF rest[k] = "1" THEN 1 ELSE IF rest[k] = "5" THEN 5 ELSE 0)
                * Pow10(n - k)]
    IN SumTo(d, n)

\* C5: the listIndex of a numbered segment is the integer written in its own
\* line, whatever the other lines are; the classifier never renumbers.
C5_ListIndexLiteral ==
    Building =>
        \A i \in 1..NumClassified :
            contents[i].kind = "numbered" =>
                contents[i].listIndex = Literal(SrcLines[i])

C5_Witness ==
    /\ pc = "done"
    /\ Len(contents) = 2
    /\ contents[1].kind = "numbered" /\ contents[1].listIndex = 5
    /\ contents[2].kind = "numbered" /\ contents[2].listIndex = 1

\* a blank line of s ends at i: the newline at i ends an empty line
BlankLineEnd(s, i) ==
    i \in 1..Len(s) /\ s[i] = "\n" /\ (i = 1 \/ s[i - 1] = "\n")
HasBlankRun(s) == \E i \in 1..Len(s) : BlankLineEnd(s, i) /\ BlankLineEnd(s, i + 1)

C7_Idempotent ==
    (pc = "renormalized" /\ \A i \in 1..Len(md) : md[i] \notin Markup)
        => md2 = md

\* C8: a text that is empty, absent or whitespace-only once its character
\* references are decoded normalizes to the empty text; the contents are then
\* the P photo embeds and the A audio embeds and nothing else, and the plain
\* text starts with the first reference; with no photo and the one audio A1
\* the contents are one audio embed of A1 and the plain text is its reference.
C8_EmptyText ==
    (Building /\ Strip(unescape(GetText(j))) = <<>>) =>
        /\ md = <<>>
        /\ pc = "done" =>
              /\ contents = [i \in 1..Len(photos) |-> Embed("photo", photos[i])]
                            \o [i \in 1..Len(audios) |-> Embed("audio", audios[i])]
              /\ photos # <<>> => Take(plain, 3) = PhotoRef(photos[1])
              /\ (photos = <<>> /\ audios # <<>>)
                    => Take(plain, 3) = AudioRef(audios[1])
              /\ (photos = <<>> /\ audios = <<"A1">>) =>
                    /\ contents = << [kind |-> "embed", type |-> "audio",
                                      identifier |-> "A1"] >>
                    /\ plain = <<"![](dayone-moment:/audio/", "A1", ")">>

C8_Witness ==
    /\ pc = "done"
    /\ j.hasText
    /\ j.text = <<" ", "&#32;", "\n">>
    /\ photos = <<>>
    /\ audios = <<"A1">>
    /\ Len(contents) = 1

\* the line terminator s ends with, <<>> when it ends with none
TermOf(s) ==
    IF Len(s) >= 2 /\ s[Len(s) - 1] = "\r" /\ s[Len(s)] = "\n" THEN <<"\r", "\n">>
    ELSE IF s # <<>> /\ s[Len(s)] \in Terminators THEN <<s[Len(s)]>>
    ELSE <<>>

\* C9: the text of the segment classified from a line ends with the line's
\* terminator when the line has one and with no terminator when it has none,
\* for headers, list items and plain text alike.
C9_TerminatorKept ==
    Building =>
        \A i \in 1..NumClassified :
            TermOf(contents[i].text) = TermOf(SrcLines[i])

JsonFiles == {f \in 1..NumFiles : files[f].json}
\* the .json files in which nothing can raise
Clean ==
    {f \in JsonFiles :
        /\ files[f].valid /\ files[f].hasDate
        /\ \A k \in 1..Len(files[f].media) : files[f].media[k] # "mp3"}
\* the .json files in which json.load or the date lookup raises
Broken == {f \in JsonFiles : ~files[f].valid \/ ~files[f].hasDate}

\* C10: a failure in one file is caught and logged for that file only: main
\* always goes on to write the JSON and the ZIP, and the entries written are
\* those of the .json files converted without an exception, one each.
C10_FailureIsolated ==
    /\ pc # "done" => ENABLED MainNext
    /\ pc = "done" =>
          /\ zipOut
          /\ jsonOut = entries
          /\ Len(entries) = Cardinality(JsonFiles) - Cardinality(logged)
          /\ {entries[i] : i \in 1..Len(entries)} = JsonFiles \ logged
          /\ Clean \subseteq {entries[i] : i \in 1..Len(entries)}
          /\ Broken \subseteq logged
          /\ logged \subseteq JsonFiles

C10_Witness ==
    /\ pc = "done"
    /\ entries = <<2>>
    /\ logged = {1}
    /\ files[1].media = <<"jpg", "mp3">>
    /\ <<1, 1>> \in copied
    /\ jsonOut = <<2>>
    /\ zipOut

====
